---- MODULE Spec2Model ----
(***************************************************************************)
(* A model of conspacesampler/barriers.py: the barrier classes BoxBarrier, *)
(* EllipsoidBarrier, SimplexBarrier, PolytopeBarrier and ComposeBarrier,   *)
(* their constructors and their query operations.                          *)
(*                                                                         *)
(* Numbers.  The source computes in float64.  The model computes in exact  *)
(* rational arithmetic extended with the IEEE special values +inf, -inf    *)
(* and NaN, so that a division by zero or 0/0 has the outcome torch gives  *)
(* it.  float64 rounding (relative 2^-53) is not modelled, except in sqrt, *)
(* which is rounded down to SqrtBits fractional bits.  Numerators and      *)
(* denominators are naturals of any size, kept as little-endian sequences  *)
(* of limbs in 0 .. Base-1.                                                *)
(***************************************************************************)
EXTENDS Integers, Sequences, FiniteSets, TLC

(***************************************************************************)
(* Natural numbers of any size                                             *)
(***************************************************************************)
Base == 2^15

(* The arithmetic and the methods are reached through one operator,       *)
(* Eval(op, a, b): BAdd(a, b) is Eval("BAdd", a, b), which is             *)
(* BAdd_impl(a, b), and so on.                                             *)
RECURSIVE Eval(_, _, _)

BAdd(a, b) == Eval("BAdd", a, b)

BSub(a, b) == Eval("BSub", a, b)

BMulLimb(a, b) == Eval("BMulLimb", a, b)

BMul(a, b) == Eval("BMul", a, b)

BSqrt(a) == Eval("BSqrt", a, <<>>)

RMul(a, b) == Eval("RMul", a, b)

RAdd(a, b) == Eval("RAdd", a, b)

RCmp(a, b) == Eval("RCmp", a, b)

RSqrt(a) == Eval("RSqrt", a, <<>>)

\* F applied k times to st.  The first half of the applications is
\* evaluated before the second, which keeps the evaluation shallow.
RECURSIVE Iterate(_, _, _)
Iterate(F(_), st, k) ==
  IF k <= 0 THEN st
  ELSE IF k = 1 THEN F(st)
  ELSE LET half == Iterate(F, st, k \div 2)
       IN  IF half = half THEN Iterate(F, half, k - k \div 2) ELSE half

SetMax(S) == CHOOSE m \in S : \A j \in S : j <= m

\* a without its high zero limbs
BNorm(a) ==
  LET nz == {i \in DOMAIN a : a[i] # 0}
  IN  IF nz = {} THEN <<>> ELSE SubSeq(a, 1, SetMax(nz))

\* limb i of a, 0 beyond its length
BLimb(a, i) == IF i <= Len(a) THEN a[i] ELSE 0

BFromNat(n) ==
  BNorm(<<n % Base, (n \div Base) % Base, n \div (Base * Base)>>)

\* one limb of a + b: st is the limbs so far and the carry
BAddStep(a, b, st) ==
  LET i == Len(st[1]) + 1
      s == BLimb(a, i) + BLimb(b, i) + st[2]
  IN  <<Append(st[1], s % Base), s \div Base>>

BAdd_impl(a, b) ==
  IF a = <<>> THEN b
  ELSE IF b = <<>> THEN a
  ELSE LET n == IF Len(a) > Len(b) THEN Len(a) ELSE Len(b)
           r == Iterate(LAMBDA st : BAddStep(a, b, st), <<<<>>, 0>>, n)
       IN  IF r[2] = 0 THEN r[1] ELSE Append(r[1], r[2])

\* one limb of a - b: st is the limbs so far and the borrow
BSubStep(a, b, st) ==
  LET i == Len(st[1]) + 1
      s == BLimb(a, i) - BLimb(b, i) - st[2]
  IN  IF s < 0 THEN <<Append(st[1], s + Base), 1>> ELSE <<Append(st[1], s), 0>>

\* a - b, for a >= b
BSub_impl(a, b) ==
  IF b = <<>> THEN a
  ELSE BNorm(Iterate(LAMBDA st : BSubStep(a, b, st), <<<<>>, 0>>, Len(a))[1])

\* the sign of a - b
BCmp(a, b) ==
  IF Len(a) < Len(b) THEN -1
  ELSE IF Len(a) > Len(b) THEN 1
  ELSE LET D == {i \in DOMAIN a : a[i] # b[i]}
       IN  IF D = {} THEN 0
           ELSE IF a[SetMax(D)] < b[SetMax(D)] THEN -1 ELSE 1

\* one limb of a * m: st is the limbs so far and the carry
BMulLimbStep(a, m, st) ==
  LET i == Len(st[1]) + 1
      p == a[i] * m + st[2]
  IN  <<Append(st[1], p % Base), p \div Base>>

BMulLimb_impl(a, m) ==
  IF m = 0 THEN <<>>
  ELSE IF m = 1 THEN a
  ELSE LET r == Iterate(LAMBDA st : BMulLimbStep(a, m, st), <<<<>>, 0>>, Len(a))
       IN  IF r[2] = 0 THEN r[1] ELSE Append(r[1], r[2])

\* a * Base^k
BShift(a, k) ==
  IF a = <<>> THEN a ELSE [i \in 1 .. k |-> 0] \o a

\* limb st[2] of b times a, added to the product so far st[1]
BMulStep(a, b, st) ==
  <<BAdd(st[1], BShift(BMulLimb(a, b[st[2]]), st[2] - 1)), st[2] + 1>>

BMul_impl(a, b) ==
  IF a = <<>> \/ b = <<>> THEN <<>>
  ELSE IF Len(b) = 1 THEN BMulLimb(a, b[1])
  ELSE IF Len(a) = 1 THEN BMulLimb(b, a[1])
  ELSE Iterate(LAMBDA st : BMulStep(a, b, st), <<<<>>, 1>>, Len(b))[1]

\* a halved (rounded down): limb i takes the low bit of limb i + 1
BHalf(a) ==
  BNorm([i \in 1 .. Len(a) |->
           (a[i] \div 2) + (IF i < Len(a) THEN (a[i + 1] % 2) * (Base \div 2) ELSE 0)])

BOne == <<1>>

BPow2(e) ==
  [i \in 1 .. (e \div 15) |-> 0] \o <<2^(e % 15)>>

\* the number of bits of a (0 for 0)
BitsOfLimb(v) ==
  CHOOSE k \in 0 .. 15 : v < 2^k /\ (k = 0 \/ 2^(k - 1) <= v)

BBits(a) ==
  IF a = <<>> THEN 0 ELSE 15 * (Len(a) - 1) + BitsOfLimb(a[Len(a)])

(* The integer square root, digit by digit: bit e of the root is set when *)
(* the remainder allows it.  st is the remainder, the root so far (scaled) *)
(* and the even exponent e of the bit under trial.                         *)
BSqrtStep(st) ==
  LET rem == st[1]
      res == st[2]
      e == st[3]
      t == BAdd(res, BPow2(e))
  IN  IF BCmp(rem, t) >= 0
      THEN <<BSub(rem, t), BAdd(BHalf(res), BPow2(e)), e - 2>>
      ELSE <<rem, BHalf(res), e - 2>>

BSqrt_impl(a) ==
  IF a = <<>> THEN <<>>
  ELSE LET top == BBits(a) - 1
           e == top - (top % 2)
       IN  Iterate(BSqrtStep, <<a, <<>>, e>>, (e \div 2) + 1)[2]

(***************************************************************************)
(* Extended rationals: sg * n / d.  d = <<>> (zero) stands for the IEEE    *)
(* specials: +inf and -inf (sg = 1, -1) and NaN (sg = 0).                  *)
(***************************************************************************)
RZero == [n |-> <<>>, sg |-> 0, d |-> BOne]

ROne == [n |-> BOne, sg |-> 1, d |-> BOne]

RNaN == [n |-> <<>>, sg |-> 0, d |-> <<>>]

RInf(s) == [n |-> BOne, sg |-> s, d |-> <<>>]

\* the rational p / q of two machine integers, q > 0
RQ(p, q) ==
  IF p = 0 THEN RZero
  ELSE [n |-> BFromNat(IF p < 0 THEN -p ELSE p),
        sg |-> IF p < 0 THEN -1 ELSE 1, d |-> BFromNat(q)]

RInt(p) == RQ(p, 1)

IsNaN(r) == r.d = <<>> /\ r.sg = 0

IsInf(r) == r.d = <<>> /\ r.sg # 0

IsFinite(r) == r.d # <<>>

RFin(s, n, d) ==
  IF n = <<>> THEN RZero ELSE [n |-> n, sg |-> s, d |-> d]

RNeg(r) == [r EXCEPT !.sg = -r.sg]

RAbs(r) == [r EXCEPT !.sg = IF r.sg = 0 THEN 0 ELSE 1]

RMul_impl(a, b) ==
  IF IsNaN(a) \/ IsNaN(b) THEN RNaN
  ELSE IF IsInf(a) \/ IsInf(b)
       THEN (IF a.sg = 0 \/ b.sg = 0 THEN RNaN ELSE RInf(a.sg * b.sg))
  ELSE IF a.sg = 0 \/ b.sg = 0 THEN RZero
  ELSE [n |-> BMul(a.n, b.n), sg |-> a.sg * b.sg, d |-> BMul(a.d, b.d)]

\* 1 / a; torch gives 1 / 0 = inf
RInv(a) ==
  IF IsNaN(a) THEN RNaN
  ELSE IF IsInf(a) THEN RZero
  ELSE IF a.sg = 0 THEN RInf(1)
  ELSE [n |-> a.d, sg |-> a.sg, d |-> a.n]

RDiv(a, b) == RMul(a, RInv(b))

\* sa * p + sb * q for naturals p, q and signs sa, sb, over the denominator d
RSum(sa, p, sb, q, d) ==
  IF sa = sb THEN RFin(sa, BAdd(p, q), d)
  ELSE LET c == BCmp(p, q)
       IN  IF c = 0 THEN RZero
           ELSE IF c > 0 THEN RFin(sa, BSub(p, q), d)
           ELSE RFin(sb, BSub(q, p), d)

\* the sum of two finite numbers, d a power of two times the denominator
\* of lo when it is that simply, and the product of the denominators if not
RSumOver(lo, hi) ==
  LET e == BBits(hi.d) - BBits(lo.d)
      scale == BPow2(e)
  IN  IF BMul(lo.d, scale) = hi.d
      THEN RSum(lo.sg, BMul(lo.n, scale), hi.sg, hi.n, hi.d)
      ELSE RSum(lo.sg, BMul(lo.n, hi.d), hi.sg, BMul(hi.n, lo.d), BMul(lo.d, hi.d))

RAdd_impl(a, b) ==
  IF IsNaN(a) \/ IsNaN(b) THEN RNaN
  ELSE IF IsInf(a) THEN (IF IsInf(b) /\ b.sg # a.sg THEN RNaN ELSE a)
  ELSE IF IsInf(b) THEN b
  ELSE IF a.sg = 0 THEN b
  ELSE IF b.sg = 0 THEN a
  ELSE IF a.d = b.d THEN RSum(a.sg, a.n, b.sg, b.n, a.d)
  ELSE IF BCmp(a.d, b.d) < 0 THEN RSumOver(a, b)
  ELSE RSumOver(b, a)

RSub(a, b) == RAdd(a, RNeg(b))

\* the sign of a - b, for a and b not NaN
RCmp_impl(a, b) ==
  IF IsInf(a) \/ IsInf(b)
  THEN (IF IsInf(a) /\ IsInf(b) /\ a.sg = b.sg THEN 0
        ELSE IF IsInf(a) THEN a.sg ELSE -b.sg)
  ELSE IF a.sg # b.sg THEN (IF a.sg < b.sg THEN -1 ELSE 1)
  ELSE IF a.sg = 0 THEN 0
  ELSE a.sg * BCmp(BMul(a.n, b.d), BMul(b.n, a.d))

\* comparisons as IEEE makes them: every comparison with NaN is false
REq(a, b) == ~IsNaN(a) /\ ~IsNaN(b) /\ RCmp(a, b) = 0

RLt(a, b) == ~IsNaN(a) /\ ~IsNaN(b) /\ RCmp(a, b) < 0

RLe(a, b) == ~IsNaN(a) /\ ~IsNaN(b) /\ RCmp(a, b) <= 0

RGt(a, b) == RLt(b, a)

RGe(a, b) == RLe(b, a)

\* torch.clamp_min / clamp_max: NaN stays NaN
RClampMin(v, m) == IF RLt(v, m) THEN m ELSE v

RClampMax(v, m) == IF RGt(v, m) THEN m ELSE v

RSquare(a) == RMul(a, a)

\* float64 carries a 53-bit significand (torch.set_default_dtype(torch.float64))
SqrtBits == 53

\* sqrt, rounded down to SqrtBits fractional bits: sqrt(n/d) = sqrt(n*d) / d
RSqrt_impl(a) ==
  IF IsNaN(a) \/ a.sg < 0 THEN RNaN
  ELSE IF IsInf(a) \/ a.sg = 0 THEN a
  ELSE RFin(1, BSqrt(BMul(BMul(a.n, a.d), BPow2(2 * SqrtBits))),
            BMul(a.d, BPow2(SqrtBits)))

(***************************************************************************)
(* Tensors.  A point is a sequence of numbers (the trailing axis); a batch *)
(* is a sequence of points (the leading axis); a matrix is a sequence of   *)
(* rows.  Every operation of the source works per batch element.           *)
(***************************************************************************)
RTwo == RInt(2)

RFour == RInt(4)

\* the floor 1e-08 of every clamp_min of the source
FloorDen == 100000000

RFloor == RQ(1, FloorDen)

\* torch.sum over the trailing axis, left to right
RECURSIVE VSum(_)
VSum(v) ==
  IF v = <<>> THEN RZero ELSE RAdd(VSum(SubSeq(v, 1, Len(v) - 1)), v[Len(v)])

RECURSIVE VMaxFrom(_, _)
VMaxFrom(v, i) ==
  IF i = Len(v) THEN v[i]
  ELSE LET m == VMaxFrom(v, i + 1)
       IN  IF IsNaN(v[i]) \/ RGt(v[i], m) THEN v[i] ELSE m

\* torch.max over the trailing axis (a NaN entry makes it NaN)
VMax(v) == VMaxFrom(v, 1)

zeros_like(X) ==
  [i \in DOMAIN X |-> [j \in DOMAIN X[i] |-> RZero]]

\* torch.diag_embed of a batch of vectors
diag_embed(V) ==
  [i \in DOMAIN V |->
     [j \in DOMAIN V[i] |-> [k \in DOMAIN V[i] |-> IF j = k THEN V[i][j] ELSE RZero]]]

\* the outcome of a call: a value, or the exception it raised
Ok(v) == [status |-> "ok", val |-> v]

Raise(e) == [status |-> e, val |-> <<>>]

\* a Hessian with the form it was computed in: "vector" (..., d) or
\* "matrix" (..., d, d)
HessOk(v, form) == [status |-> "ok", val |-> v, form |-> form, trace |-> <<>>]

HessRaise(e, trace) == [status |-> e, val |-> <<>>, form |-> "none", trace |-> trace]

\* one term c * log(arg) of a value; a value is the sum of its terms
LogTerm(c, arg) == [c |-> c, arg |-> arg]

\* 0.5 ** (p / q), for the exponents the model meets: p / q or 2 * p / q whole
HalfPow(p, q) ==
  IF p % q = 0 THEN RQ(1, 2^(p \div q)) ELSE RSqrt(RQ(1, 2^((2 * p) \div q)))

(***************************************************************************)
(* class BoxBarrier                                                        *)
(***************************************************************************)
BoxBarrier(bounds) ==
  [bounds |-> bounds, kind |-> "Box", dimension |-> Len(bounds), diag_hess |-> TRUE]

Box_safe_diff(self, p) ==
  [j \in DOMAIN p |->
     RClampMin(RSub(RSquare(self.bounds[j]), RSquare(p[j])), RFloor)]

\* feasibility with the boundary left out
Box_feasibility_strict(self, X) ==
  [i \in DOMAIN X |-> \A j \in DOMAIN X[i] : RLt(RAbs(X[i][j]), self.bounds[j])]

Box_feasibility(self, X) ==
  [i \in DOMAIN X |-> \A j \in DOMAIN X[i] : RLe(RAbs(X[i][j]), self.bounds[j])]

Box_value(self, X) ==
  [i \in DOMAIN X |->
     LET sd == Box_safe_diff(self, X[i])
     IN  [j \in DOMAIN sd |-> LogTerm(RInt(-1), sd[j])]]

Box_gradient(self, X) ==
  [i \in DOMAIN X |->
     LET sd == Box_safe_diff(self, X[i])
     IN  [j \in DOMAIN sd |-> RDiv(RMul(RTwo, X[i][j]), sd[j])]]

\* torch.isclose(y, ZERO, atol=1e-07, rtol=1e-05): |y - 0| <= atol + rtol * |0|
CloseAtolDen == 10000000

CloseRtolDen == 100000

IsCloseToZero(y) ==
  RLe(RAbs(RSub(y, RZero)),
      RAdd(RQ(1, CloseAtolDen), RMul(RQ(1, CloseRtolDen), RAbs(RZero))))

Box_inverse_gradient(self, Y) ==
  [i \in DOMAIN Y |->
     [j \in DOMAIN Y[i] |->
        LET y == Y[i][j]
            asqr_ysqr == RSquare(RMul(self.bounds[j], y))
            raw == RDiv(RAdd(RInt(-1), RSqrt(RAdd(ROne, asqr_ysqr))), y)
        IN  IF IsCloseToZero(y) THEN RZero ELSE raw]]

\* the ceiling 1e07 of the box Hessian
BoxHessCeil == 10000000

Box_hessian(self, X) ==
  [i \in DOMAIN X |->
     LET sd == Box_safe_diff(self, X[i])
     IN  [j \in DOMAIN sd |->
            LET reci_diff == RInv(sd[j])
            IN  RClampMax(RAdd(RMul(RTwo, reci_diff),
                               RMul(RFour, RSquare(RMul(X[i][j], reci_diff)))),
                          RInt(BoxHessCeil))]]

Box_boundary_to_interior_half(self, X) ==
  [i \in DOMAIN X |->
     \E j \in DOMAIN X[i] :
        RGt(RAbs(X[i][j]), RMul(self.bounds[j], HalfPow(1, self.dimension)))]

(***************************************************************************)
(* class EllipsoidBarrier: M = rot * diag(eigvals) * rot.T                 *)
(***************************************************************************)
EllipsoidBarrier(ellipsoid) ==
  [kind |-> "Ellipsoid", dimension |-> Len(ellipsoid.eigvals),
   diag_hess |-> FALSE, ellipsoid |-> ellipsoid]

\* einsum("ij,...j->...i", rot.T, p)
Ellipsoid_UT(self, p) ==
  [i \in DOMAIN p |-> VSum([j \in DOMAIN p |-> RMul(self.ellipsoid.rot[j][i], p[j])])]

Ellipsoid_inner_product(self, p) ==
  LET UTx == Ellipsoid_UT(self, p)
  IN  VSum([i \in DOMAIN p |-> RMul(RSquare(UTx[i]), self.ellipsoid.eigvals[i])])

Ellipsoid_inverse_inner_product(self, p) ==
  LET UTy == Ellipsoid_UT(self, p)
  IN  VSum([i \in DOMAIN p |-> RDiv(RSquare(UTy[i]), self.ellipsoid.eigvals[i])])

Ellipsoid_map(self, p) ==
  LET UTx == Ellipsoid_UT(self, p)
  IN  [i \in DOMAIN p |->
         VSum([j \in DOMAIN p |->
                 RMul(RMul(self.ellipsoid.rot[i][j], self.ellipsoid.eigvals[j]), UTx[j])])]

Ellipsoid_inverse_map(self, p) ==
  LET UTx == Ellipsoid_UT(self, p)
  IN  [i \in DOMAIN p |->
         VSum([j \in DOMAIN p |->
                 RMul(RDiv(self.ellipsoid.rot[i][j], self.ellipsoid.eigvals[j]), UTx[j])])]

Ellipsoid_feasibility(self, X) ==
  [i \in DOMAIN X |-> RLe(Ellipsoid_inner_product(self, X[i]), ROne)]

\* value with only the points strictly outside zeroed
Ellipsoid_value_outside_only(self, X) ==
  [i \in DOMAIN X |->
     LET ip == Ellipsoid_inner_product(self, X[i])
         inner_product == IF RGt(ip, ROne) THEN RZero ELSE ip
     IN  <<LogTerm(RInt(-1), RSub(ROne, inner_product))>>]

Ellipsoid_value(self, X) ==
  [i \in DOMAIN X |->
     LET ip == Ellipsoid_inner_product(self, X[i])
         inner_product == IF RGe(ip, ROne) THEN RZero ELSE ip
     IN  <<LogTerm(RInt(-1), RSub(ROne, inner_product))>>]

Ellipsoid_gradient(self, X) ==
  [i \in DOMAIN X |->
     LET one_minus_xAx == RClampMin(RSub(ROne, Ellipsoid_inner_product(self, X[i])), RFloor)
         Ax == Ellipsoid_map(self, X[i])
     IN  [j \in DOMAIN Ax |-> RDiv(RMul(RTwo, Ax[j]), one_minus_xAx)]]

Ellipsoid_inverse_gradient(self, Y) ==
  [i \in DOMAIN Y |->
     LET yinvAy == RClampMin(Ellipsoid_inverse_inner_product(self, Y[i]), RFloor)
         lambda_cons == RDiv(RAdd(RInt(-1), RSqrt(RAdd(ROne, yinvAy))), yinvAy)
         invAy == Ellipsoid_inverse_map(self, Y[i])
     IN  [j \in DOMAIN invAy |-> RMul(lambda_cons, invAy[j])]]

Ellipsoid_hessian(self, X) ==
  [i \in DOMAIN X |->
     LET one_minus_xAx == RClampMin(RSub(ROne, Ellipsoid_inner_product(self, X[i])), RFloor)
         Ax == Ellipsoid_map(self, X[i])
         U == self.ellipsoid.rot
         L == self.ellipsoid.eigvals
         scaled_Ax == [j \in DOMAIN Ax |-> RDiv(RMul(RTwo, Ax[j]), one_minus_xAx)]
         scaled_L == [j \in DOMAIN L |-> RDiv(RMul(RTwo, L[j]), one_minus_xAx)]
     IN  [j \in DOMAIN Ax |->
            [k \in DOMAIN Ax |->
               RAdd(VSum([m \in DOMAIN L |-> RMul(RMul(U[j][m], scaled_L[m]), U[k][m])]),
                    RMul(scaled_Ax[j], scaled_Ax[k]))]]]

Ellipsoid_boundary_to_interior_half(self, X) ==
  [i \in DOMAIN X |->
     RGt(Ellipsoid_inner_product(self, X[i]), HalfPow(2, self.dimension))]

(***************************************************************************)
(* class SimplexBarrier                                                    *)
(***************************************************************************)
SimplexBarrier(dimension) ==
  [kind |-> "Simplex", dimension |-> dimension, diag_hess |-> FALSE]

Simplex_safe_interior(self, p) ==
  RClampMin(RSub(ROne, VSum(p)), RFloor)

Simplex_feasibility(self, X) ==
  [i \in DOMAIN X |->
     LET sum_one_cons == RLe(VSum(X[i]), ROne)
         pos_cons == \A j \in DOMAIN X[i] : RGe(X[i][j], RZero)
     IN  sum_one_cons /\ pos_cons]

Simplex_value(self, X) ==
  [i \in DOMAIN X |->
     [j \in DOMAIN X[i] |-> LogTerm(RInt(-1), X[i][j])]
       \o <<LogTerm(RInt(-1), Simplex_safe_interior(self, X[i]))>>]

Simplex_gradient(self, X) ==
  [i \in DOMAIN X |->
     [j \in DOMAIN X[i] |->
        LET x_safe == RClampMin(X[i][j], RFloor)
        IN  RAdd(RDiv(RInt(-1), x_safe), RInv(Simplex_safe_interior(self, X[i])))]]

\* the ceiling 1e08 of the simplex Hessian's two parts
SimplexHessCeil == 100000000

Simplex_hessian(self, X) ==
  [i \in DOMAIN X |->
     LET one_over_x_squared ==
           [j \in DOMAIN X[i] |->
              RClampMax(RInv(RSquare(X[i][j])), RInt(SimplexHessCeil))]
         cons == RClampMax(RSquare(RInv(Simplex_safe_interior(self, X[i]))),
                           RInt(SimplexHessCeil))
     IN  [j \in DOMAIN X[i] |->
            [k \in DOMAIN X[i] |->
               RAdd(IF j = k THEN one_over_x_squared[j] ELSE RZero, cons)]]]

\* inverse_gradient, before the loop: the bracket of each batch element
Simplex_c_lower_init(Y) ==
  [i \in DOMAIN Y |-> RZero]

Simplex_c_upper_init_impl(Y) ==
  [i \in DOMAIN Y |->
     LET recip == RInv(VMax(Y[i]))
         clamped == RClampMax(recip, ROne)
     IN  IF RLt(clamped, RZero) THEN ROne ELSE clamped]

\* f(c) = c + c * sum(1 / (1 - c * y)) - 1
Simplex_f(c, y) ==
  RSub(RAdd(c, RMul(c, VSum([j \in DOMAIN y |-> RInv(RSub(ROne, RMul(c, y[j])))]))),
       ROne)

\* one iteration with the mask inverted: the lower bound moves when
\* f(c_middle) > 0
Simplex_bisect_inverted(cl, cu, Y) ==
  LET c_middle == [i \in DOMAIN Y |-> RMul(RQ(1, 2), RAdd(cl[i], cu[i]))]
      mask == [i \in DOMAIN Y |-> ~RGt(Simplex_f(c_middle[i], Y[i]), RZero)]
  IN  [c_upper |-> [i \in DOMAIN Y |-> IF mask[i] THEN c_middle[i] ELSE cu[i]],
       c_lower |-> [i \in DOMAIN Y |-> IF ~mask[i] THEN c_middle[i] ELSE cl[i]]]

\* one iteration of the loop on the brackets cl, cu of the batch
Simplex_bisect_impl(cl, cu, Y) ==
  LET c_middle == [i \in DOMAIN Y |-> RMul(RQ(1, 2), RAdd(cl[i], cu[i]))]
      mask == [i \in DOMAIN Y |-> RGt(Simplex_f(c_middle[i], Y[i]), RZero)]
  IN  [c_upper |-> [i \in DOMAIN Y |-> IF mask[i] THEN c_middle[i] ELSE cu[i]],
       c_lower |-> [i \in DOMAIN Y |-> IF ~mask[i] THEN c_middle[i] ELSE cl[i]]]

\* inverse_gradient, after the loop
Simplex_recover_impl(cu, Y) ==
  [i \in DOMAIN Y |->
     [j \in DOMAIN Y[i] |->
        RClampMin(RDiv(cu[i], RSub(ROne, RMul(cu[i], Y[i][j]))), RFloor)]]

\* for _ in range(35)
NumIters == 35

Simplex_boundary_to_interior_half(self, X) ==
  [i \in DOMAIN X |->
     LET a == HalfPow(1, self.dimension)
         value_of_mask == RSub(a, VSum(X[i]))
     IN  RLt(value_of_mask, RZero)]

(***************************************************************************)
(* class PolytopeBarrier.  polytope.A is a matrix (a sequence of rows,     *)
(* Arank = 2) or the vector of a diagonal matrix (Arank = 1); Arank is     *)
(* len(polytope["A"].shape).  weights is None when hasWeights is false.    *)
(***************************************************************************)
\* the constructor with weights compared to the dimension of the space
\* instead of the number of constraints
Polytope_init_by_dimension(polytope, hasWeights, weights) ==
  LET d == IF polytope.Arank = 1 THEN Len(polytope.A) ELSE Len(polytope.A[1])
  IN  IF hasWeights /\ Len(weights) # d
      THEN Raise("ValueError")
      ELSE Ok([kind |-> "Polytope", dimension |-> d,
               diag_hess |-> polytope.Arank = 1,
               polytope |-> polytope,
               hasWeights |-> hasWeights, weights |-> weights])

Polytope_init(polytope, hasWeights, weights) ==
  IF hasWeights /\ Len(weights) # Len(polytope.b)
  THEN Raise("ValueError")
  ELSE Ok([kind |-> "Polytope", dimension |-> IF polytope.Arank = 1 THEN Len(polytope.A)
                         ELSE Len(polytope.A[1]),
           diag_hess |-> polytope.Arank = 1,
           polytope |-> polytope,
           hasWeights |-> hasWeights, weights |-> weights])

\* Ax with a diagonal-vector A contracted with x as a row would be
Polytope_Ax_contracted(self, p) ==
  IF ~self.diag_hess
  THEN [i \in DOMAIN self.polytope.A |->
          VSum([j \in DOMAIN p |-> RMul(self.polytope.A[i][j], p[j])])]
  ELSE [i \in DOMAIN p |->
          VSum([j \in DOMAIN p |-> RMul(self.polytope.A[j], p[j])])]

Polytope_Ax(self, p) ==
  IF ~self.diag_hess
  THEN [i \in DOMAIN self.polytope.A |->
          VSum([j \in DOMAIN p |-> RMul(self.polytope.A[i][j], p[j])])]
  ELSE [i \in DOMAIN p |-> RMul(self.polytope.A[i], p[i])]

Polytope_safe_slack(self, p) ==
  LET vals == Polytope_Ax(self, p)
  IN  [i \in DOMAIN vals |-> RClampMin(RSub(self.polytope.b[i], vals[i]), RFloor)]

Polytope_feasibility(self, X) ==
  [i \in DOMAIN X |->
     LET vals == Polytope_Ax(self, X[i])
     IN  \A k \in DOMAIN vals : RLe(vals[k], self.polytope.b[k])]

Polytope_value(self, X) ==
  [i \in DOMAIN X |->
     LET slack == Polytope_safe_slack(self, X[i])
     IN  [k \in DOMAIN slack |->
            LogTerm(IF self.hasWeights THEN RNeg(self.weights[k]) ELSE RInt(-1),
                    slack[k])]]

Polytope_gradient(self, X) ==
  [i \in DOMAIN X |->
     LET raw == Polytope_safe_slack(self, X[i])
         slack == [k \in DOMAIN raw |->
                     IF self.hasWeights THEN RDiv(raw[k], self.weights[k]) ELSE raw[k]]
     IN  IF ~self.diag_hess
         THEN [j \in DOMAIN X[i] |->
                 VSum([k \in DOMAIN slack |-> RDiv(self.polytope.A[k][j], slack[k])])]
         ELSE [j \in DOMAIN X[i] |-> RDiv(self.polytope.A[j], slack[j])]]

Polytope_hessian(self, X) ==
  [i \in DOMAIN X |->
     LET raw == Polytope_safe_slack(self, X[i])
         slack == [k \in DOMAIN raw |->
                     IF self.hasWeights THEN RDiv(raw[k], RSqrt(self.weights[k]))
                     ELSE raw[k]]
     IN  IF ~self.diag_hess
         THEN LET component == [k \in DOMAIN slack |->
                                  [j \in DOMAIN X[i] |->
                                     RDiv(self.polytope.A[k][j], slack[k])]]
              IN  [j \in DOMAIN X[i] |->
                     [l \in DOMAIN X[i] |->
                        VSum([k \in DOMAIN slack |->
                                RMul(component[k][j], component[k][l])])]]
         ELSE [j \in DOMAIN X[i] |-> RSquare(RDiv(self.polytope.A[j], slack[j]))]]

(***************************************************************************)
(* class Barrier: the operations a subclass may leave undefined            *)
(***************************************************************************)
\* inverse_gradient answered by the first constituent of a composition
Compose_inverse_gradient_delegated(self, Y) ==
  IF self.kind = "Compose" /\ self.barriers # <<>> /\ self.barriers[1].kind = "Box"
  THEN Ok(Box_inverse_gradient(self.barriers[1], Y))
  ELSE Raise("NotImplementedError")

Barrier_inverse_gradient(self, Y) == Raise("NotImplementedError")

Barrier_boundary_to_interior_half(self, X) == Raise("NotImplementedError")

Polytope_inverse_gradient(self, Y) == Raise("NotImplementedError")

(***************************************************************************)
(* class ComposeBarrier.  hess_compute_order.nondiag and .diag are         *)
(* _hess_compute_order[0] and [1]: the positions (from 1 here) of the      *)
(* constituents whose diag_hess is false and true.                         *)
(***************************************************************************)
Feasibility(b, X) == Eval("feasibility", b, X)

Value(b, X) == Eval("value", b, X)

Gradient(b, X) == Eval("gradient", b, X)

Hessian(b, X) == Eval("hessian", b, X)

RECURSIVE PositionsWhere(_, _, _)
PositionsWhere(barriers, flag, k) ==
  IF k > Len(barriers) THEN <<>>
  ELSE (IF barriers[k].diag_hess = flag THEN <<k>> ELSE <<>>)
         \o PositionsWhere(barriers, flag, k + 1)

\* the flag set as soon as one constituent is diagonal
Compose_diag_hess_any(order) == Len(order.diag) > 0

Compose_diag_hess(order) == Len(order.nondiag) = 0

ComposeBarrier(barriers) ==
  LET order == [diag |-> PositionsWhere(barriers, TRUE, 1),
                nondiag |-> PositionsWhere(barriers, FALSE, 1)]
  IN  [kind |-> "Compose", diag_hess |-> Compose_diag_hess(order), barriers |-> barriers,
       hess_compute_order |-> order]

RECURSIVE Compose_feasibility_from(_, _, _, _)
Compose_feasibility_from(self, X, k, check) ==
  IF k > Len(self.barriers) THEN check
  ELSE LET f == Feasibility(self.barriers[k], X)
       IN  Compose_feasibility_from(self, X, k + 1,
                                    [i \in DOMAIN X |-> check[i] /\ f[i]])

\* feasibility that keeps only the answer of the last constituent
Compose_feasibility_last(self, X) ==
  IF self.barriers = <<>> THEN [i \in DOMAIN X |-> TRUE]
  ELSE Feasibility(self.barriers[Len(self.barriers)], X)

Compose_feasibility(self, X) ==
  Compose_feasibility_from(self, X, 1, [i \in DOMAIN X |-> TRUE])

RECURSIVE Compose_value_from(_, _, _, _)
Compose_value_from(self, X, k, value) ==
  IF k > Len(self.barriers) THEN value
  ELSE LET v == Value(self.barriers[k], X)
       IN  Compose_value_from(self, X, k + 1, [i \in DOMAIN X |-> value[i] \o v[i]])

Compose_value(self, X) ==
  Compose_value_from(self, X, 1, [i \in DOMAIN X |-> <<>>])

RECURSIVE Compose_gradient_from(_, _, _, _)
Compose_gradient_from(self, X, k, gradient) ==
  IF k > Len(self.barriers) THEN gradient
  ELSE LET g == Gradient(self.barriers[k], X)
       IN  Compose_gradient_from(self, X, k + 1,
             [i \in DOMAIN X |-> [j \in DOMAIN X[i] |-> RAdd(gradient[i][j], g[i][j])]])

Compose_gradient(self, X) ==
  Compose_gradient_from(self, X, 1, zeros_like(X))

\* the local variable hessian of ComposeBarrier.hessian: unbound until assigned
HessUnbound == [status |-> "ok", val |-> <<>>, form |-> "none", trace |-> <<>>, bound |-> FALSE]

HessEvent(ev, k, diag, form) == [form |-> form, diag |-> diag, ev |-> ev, idx |-> k]

\* hessian += h, in the form (vector or matrix) both have
HessAdd(acc, h) ==
  IF acc.form = "vector"
  THEN [i \in DOMAIN acc.val |->
          [j \in DOMAIN acc.val[i] |-> RAdd(acc.val[i][j], h.val[i][j])]]
  ELSE [i \in DOMAIN acc.val |->
          [j \in DOMAIN acc.val[i] |->
             [k \in DOMAIN acc.val[i][j] |-> RAdd(acc.val[i][j][k], h.val[i][j][k])]]]

\* for idx in order: hessian += self.barriers[idx].hessian(x), from position k of order
RECURSIVE Compose_hessian_loop(_, _, _, _, _)
Compose_hessian_loop(self, X, order, k, acc) ==
  IF k > Len(order) \/ acc.status # "ok" THEN acc
  ELSE LET idx == order[k]
           h == Hessian(self.barriers[idx], X)
           tr == Append(acc.trace, HessEvent("add", idx, self.barriers[idx].diag_hess, acc.form))
       IN  IF h.status # "ok"
           THEN [acc EXCEPT !.status = h.status, !.trace = tr]
           ELSE IF h.form # acc.form
           THEN [acc EXCEPT !.status = "RuntimeError", !.trace = tr]
           ELSE Compose_hessian_loop(self, X, order, k + 1,
                  [acc EXCEPT !.val = HessAdd(acc, h), !.trace = tr])

\* the first part: if len(self._hess_compute_order[1]) > 0: ...
Compose_hessian_diag_part(self, X) ==
  IF Len(self.hess_compute_order.diag) > 0
  THEN Compose_hessian_loop(self, X, self.hess_compute_order.diag, 1,
         [status |-> "ok", val |-> zeros_like(X), form |-> "vector", trace |-> <<>>,
          bound |-> TRUE])
  ELSE HessUnbound

\* the second part: if not self.diag_hess: hessian = torch.diag_embed(hessian) ...
Compose_hessian_dense_part(self, X, acc) ==
  IF acc.status # "ok" \/ self.diag_hess THEN acc
  ELSE IF ~acc.bound THEN [acc EXCEPT !.status = "UnboundLocalError"]
  ELSE Compose_hessian_loop(self, X, self.hess_compute_order.nondiag, 1,
         [acc EXCEPT !.val = diag_embed(acc.val), !.form = "matrix",
                     !.trace = Append(acc.trace, HessEvent("embed", 0, FALSE, acc.form))])

Compose_hessian(self, X) ==
  LET acc == Compose_hessian_dense_part(self, X, Compose_hessian_diag_part(self, X))
  IN  IF acc.status # "ok" THEN HessRaise(acc.status, acc.trace)
      ELSE IF ~acc.bound THEN HessRaise("UnboundLocalError", acc.trace)
      ELSE [status |-> "ok", val |-> acc.val, form |-> acc.form, trace |-> acc.trace]

(***************************************************************************)
(* Method dispatch on the class of the barrier                             *)
(***************************************************************************)
Feasibility_impl(b, X) ==
  CASE b.kind = "Box" -> Box_feasibility(b, X)
    [] b.kind = "Ellipsoid" -> Ellipsoid_feasibility(b, X)
    [] b.kind = "Simplex" -> Simplex_feasibility(b, X)
    [] b.kind = "Polytope" -> Polytope_feasibility(b, X)
    [] b.kind = "Compose" -> Compose_feasibility(b, X)

Value_impl(b, X) ==
  CASE b.kind = "Box" -> Box_value(b, X)
    [] b.kind = "Ellipsoid" -> Ellipsoid_value(b, X)
    [] b.kind = "Simplex" -> Simplex_value(b, X)
    [] b.kind = "Polytope" -> Polytope_value(b, X)
    [] b.kind = "Compose" -> Compose_value(b, X)

Gradient_impl(b, X) ==
  CASE b.kind = "Box" -> Box_gradient(b, X)
    [] b.kind = "Ellipsoid" -> Ellipsoid_gradient(b, X)
    [] b.kind = "Simplex" -> Simplex_gradient(b, X)
    [] b.kind = "Polytope" -> Polytope_gradient(b, X)
    [] b.kind = "Compose" -> Compose_gradient(b, X)

Hessian_impl(b, X) ==
  CASE b.kind = "Box" -> HessOk(Box_hessian(b, X), "vector")
    [] b.kind = "Ellipsoid" -> HessOk(Ellipsoid_hessian(b, X), "matrix")
    [] b.kind = "Simplex" -> HessOk(Simplex_hessian(b, X), "matrix")
    [] b.kind = "Polytope" ->
         HessOk(Polytope_hessian(b, X), IF b.diag_hess THEN "vector" ELSE "matrix")
    [] b.kind = "Compose" -> Compose_hessian(b, X)

\* inverse_gradient of every class but SimplexBarrier, whose loop the
\* actions below take step by step
InverseGradient_impl(b, Y) ==
  CASE b.kind = "Box" -> Ok(Box_inverse_gradient(b, Y))
    [] b.kind = "Ellipsoid" -> Ok(Ellipsoid_inverse_gradient(b, Y))
    [] b.kind = "Polytope" -> Polytope_inverse_gradient(b, Y)
    [] b.kind = "Compose" -> Barrier_inverse_gradient(b, Y)

BoundaryToInteriorHalf_impl(b, X) ==
  CASE b.kind = "Box" -> Ok(Box_boundary_to_interior_half(b, X))
    [] b.kind = "Ellipsoid" -> Ok(Ellipsoid_boundary_to_interior_half(b, X))
    [] b.kind = "Simplex" -> Ok(Simplex_boundary_to_interior_half(b, X))
    [] b.kind = "Polytope" -> Barrier_boundary_to_interior_half(b, X)
    [] b.kind = "Compose" -> Barrier_boundary_to_interior_half(b, X)

InverseGradient(b, Y) == Eval("inverse_gradient", b, Y)

BoundaryToInteriorHalf(b, X) == Eval("boundary_to_interior_half", b, X)

Simplex_c_upper_init(Y) == Eval("Simplex_c_upper_init", Y, <<>>)

Simplex_bisect(cl, cu, Y) == Eval("Simplex_bisect", <<cl, cu>>, Y)

Simplex_recover(cu, Y) == Eval("Simplex_recover", cu, Y)

Eval(op, a, b) ==
  CASE op = "BAdd" -> BAdd_impl(a, b)
    [] op = "BMul" -> BMul_impl(a, b)
    [] op = "BMulLimb" -> BMulLimb_impl(a, b)
    [] op = "BSub" -> BSub_impl(a, b)
    [] op = "RMul" -> RMul_impl(a, b)
    [] op = "RAdd" -> RAdd_impl(a, b)
    [] op = "RCmp" -> RCmp_impl(a, b)
    [] op = "BSqrt" -> BSqrt_impl(a)
    [] op = "RSqrt" -> RSqrt_impl(a)
    [] op = "feasibility" -> Feasibility_impl(a, b)
    [] op = "value" -> Value_impl(a, b)
    [] op = "gradient" -> Gradient_impl(a, b)
    [] op = "hessian" -> Hessian_impl(a, b)
    [] op = "inverse_gradient" -> InverseGradient_impl(a, b)
    [] op = "boundary_to_interior_half" -> BoundaryToInteriorHalf_impl(a, b)
    [] op = "Simplex_c_upper_init" -> Simplex_c_upper_init_impl(a)
    [] op = "Simplex_bisect" -> Simplex_bisect_impl(a[1], a[2], b)
    [] op = "Simplex_recover" -> Simplex_recover_impl(a, b)

(***************************************************************************)
(* In-place tensor updates.  Each statement of a method that writes into a *)
(* tensor (a method ending in _, an assignment to t[mask], an augmented     *)
(* assignment) is listed with the line it is on, the tensor it writes, the *)
(* operation that made that tensor, and the tensor that operation was      *)
(* applied to.  An operation of ViewOps returns a tensor that shares the   *)
(* storage of its operand; every other one allocates its result.           *)
(***************************************************************************)
ViewOps == {"argument", "attribute", "unsqueeze", "unsqueeze_", "getitem", "T"}

W(line, target, made_by, operand) ==
  [line |-> line, target |-> target, made_by |-> made_by, operand |-> operand]

InPlace_rows(kind, op) ==
  CASE kind = "Compose" /\ op = "feasibility" -> {W(82, "check", "torch.ones", "none")}
    [] kind = "Compose" /\ op = "value" -> {W(88, "value", "torch.zeros", "none")}
    [] kind = "Compose" /\ op = "gradient" -> {W(94, "gradient", "torch.zeros_like", "x")}
    [] kind = "Compose" /\ op = "hessian" ->
         {W(101, "hessian", "torch.zeros_like", "x"),
          W(106, "hessian", "torch.diag_embed", "hessian")}
    [] kind = "Box" /\ op = "inverse_gradient" -> {W(157, "raw", "div", "x")}
    [] kind = "Box" /\ op = "hessian" ->
         {W(166, "_safe_diff(x)", "torch.clamp_min", "sub"),
          W(168, "output", "add", "reci_diff")}
    [] kind = "Ellipsoid" /\ op = "value" -> {W(238, "inner_product", "torch.sum", "mul")}
    [] kind = "Ellipsoid" /\ op = "gradient" -> {W(251, "one_minus_xAx", "rsub", "inner_product")}
    [] kind = "Ellipsoid" /\ op = "hessian" ->
         {W(284, "one_minus_xAx", "rsub", "inner_product"),
          W(288, "one_minus_xAx", "rsub", "inner_product"),
          W(289, "one_minus_xAx", "rsub", "inner_product")}
    [] kind = "Simplex" /\ op = "feasibility" -> {W(322, "sum_one_cons", "le", "torch.sum")}
    [] kind = "Simplex" /\ op = "hessian" ->
         {W(334, "torch.square(x)", "torch.square", "x"),
          W(336, "_safe_interior(x)", "torch.clamp_min", "rsub"),
          W(338, "cons", "torch.clamp_min", "rsub")}
    [] kind = "Simplex" /\ op = "inverse_gradient" ->
         {W(347, "c_upper", "torch.reciprocal", "torch.max"),
          W(348, "c_upper", "torch.reciprocal", "torch.max"),
          W(357, "c_upper", "torch.reciprocal", "torch.max"),
          W(358, "c_lower", "torch.zeros", "none")}
    [] kind = "Polytope" /\ op = "value" -> {W(415, "value_vector", "torch.log", "slack")}
    [] kind = "Polytope" /\ op = "gradient" -> {W(421, "slack", "torch.clamp_min", "sub")}
    [] kind = "Polytope" /\ op = "hessian" -> {W(430, "slack", "torch.clamp_min", "sub")}
    [] OTHER -> {}

\* PolytopeBarrier.hessian taking the root of the weights in place,
\* self.weights.sqrt_(), where the code takes self.weights.sqrt()
InPlace_weights_sqrt(kind, op) ==
  InPlace_rows(kind, op) \cup
    (IF kind = "Polytope" /\ op = "hessian"
     THEN {W(430, "self.weights", "attribute", "self.weights")}
     ELSE {})

InPlace(kind, op) == InPlace_rows(kind, op)

\* the tensor whose storage the statement writes: the operand of a view, or
\* the new tensor the operation allocated
Storage(w) == IF w.made_by \in ViewOps THEN w.operand ELSE "fresh"

\* the statements one call of op on b executes, those of the constituents'
\* methods it calls included
RECURSIVE Writes(_, _)
Writes(b, op) ==
  InPlace(b.kind, op) \cup
    (IF b.kind = "Compose" /\ op \in {"feasibility", "value", "gradient", "hessian"}
     THEN UNION {Writes(b.barriers[k], op) : k \in DOMAIN b.barriers}
     ELSE {})

\* a tensor that has been written into: its entries are no longer known
Written(v) == [k \in DOMAIN v |-> RNaN]

\* the argument after the call
InputAfter(b, op, X) ==
  IF \E w \in Writes(b, op) : Storage(w) = "x"
  THEN [i \in DOMAIN X |-> Written(X[i])]
  ELSE X

\* the barrier after the call
SelfAfter(b, op, X) ==
  IF \E w \in Writes(b, op) : Storage(w) = "self.weights"
  THEN [b EXCEPT !.weights = Written(@)]
  ELSE IF \E w \in Writes(b, op) : Storage(w) \notin {"fresh", "x"}
  THEN [b EXCEPT !.kind = "Overwritten"]
  ELSE b

(***************************************************************************)
(* The inputs: points of the plane, batches of them, and the arguments of  *)
(* the constructors                                                        *)
(***************************************************************************)
MaxBatch == 2

MaxLen == 2

MaxDepth == 2

PointList ==
  << <<RQ(1, 4), RQ(1, 4)>>,      \* inside every domain below
     <<RZero, RZero>>,            \* on the simplex's boundary
     <<RQ(1, 2), RQ(1, 2)>>,      \* on the simplex's and a polytope's boundary
     <<ROne, RZero>>,             \* on the box's and the disc's boundary
     <<ROne, ROne>>,              \* a corner of the box, outside the disc
     <<RQ(-1, 2), RQ(1, 4)>>,
     <<RQ(3, 2), RZero>>,         \* outside every domain
     <<RQ(1, 524288), RQ(-1, 524288)>>,  \* 2^-19: small, well above 1e-06
     <<RFin(1, BPow2(40), BOne), RInt(-3)>> >>   \* 2^40: a large dual point

\* the batches: up to MaxBatch consecutive points of the list
Batches ==
  { SubSeq(PointList, w[1], w[1] + w[2] - 1) :
      w \in { v \in (1..Len(PointList)) \X (1..MaxBatch) :
                v[1] + v[2] - 1 <= Len(PointList) } }

BoxBoundsList ==
  << <<ROne, ROne>>, <<RQ(1, 2), ROne>>, <<RInt(8), RInt(8)>> >>

\* a rotation with rational entries (the 3-4-5 triangle), and the identity
EllipsoidList ==
  << [eigvals |-> <<ROne, ROne>>, rot |-> << <<ROne, RZero>>, <<RZero, ROne>> >>],
     [eigvals |-> <<ROne, RFour>>,
      rot |-> << <<RQ(3, 5), RQ(-4, 5)>>, <<RQ(4, 5), RQ(3, 5)>> >>] >>

\* torch.diag_embed of one vector
DiagMatrix(a) ==
  [j \in DOMAIN a |-> [k \in DOMAIN a |-> IF j = k THEN a[j] ELSE RZero]]

DiagPolytopes ==
  << [b |-> <<ROne, ROne>>, Arank |-> 1, A |-> <<ROne, ROne>>],
     [b |-> <<ROne, RQ(1, 2)>>, Arank |-> 1, A |-> <<RTwo, RInt(-1)>>] >>

\* the same polytope with A as a full diagonal matrix
FullTwin(polytope) ==
  [b |-> polytope.b, Arank |-> 2, A |-> DiagMatrix(polytope.A)]

FullPolytopes ==
  << FullTwin(DiagPolytopes[1]), FullTwin(DiagPolytopes[2]),
     [b |-> <<ROne, RZero, RZero>>,
      Arank |-> 2, A |-> << <<ROne, ROne>>, <<RInt(-1), RZero>>, <<RZero, RInt(-1)>> >>] >>

\* weights: None, or a tensor of one, two or three weights
WeightsList ==
  << [w |-> <<>>, has |-> FALSE],
     [w |-> <<ROne, ROne>>, has |-> TRUE],
     [w |-> <<RFour, RQ(1, 4)>>, has |-> TRUE],
     [w |-> <<RTwo, RInt(3)>>, has |-> TRUE],
     [w |-> <<ROne>>, has |-> TRUE],
     [w |-> <<ROne, RTwo, ROne>>, has |-> TRUE] >>

NoBarrier == [kind |-> "None"]

RECURSIVE Depth(_)
Depth(b) ==
  IF b.kind # "Compose" THEN 0
  ELSE IF b.barriers = <<>> THEN 1
  ELSE 1 + CHOOSE m \in 0..MaxDepth + 1 :
             /\ \E k \in DOMAIN b.barriers : Depth(b.barriers[k]) = m
             /\ \A k \in DOMAIN b.barriers : Depth(b.barriers[k]) <= m

\* the barriers a new ComposeBarrier may be built from: three leaves and,
\* for nesting, the current composition
LeafPool ==
  << BoxBarrier(BoxBoundsList[1]), EllipsoidBarrier(EllipsoidList[1]), SimplexBarrier(2) >>

Pool(b) ==
  LeafPool \o (IF b.kind = "Compose" /\ Depth(b) < MaxDepth THEN <<b>> ELSE <<>>)

(***************************************************************************)
(* The state: the barrier object in hand (bar), the tensor passed to its   *)
(* methods (x), the last call and its outcome (call, out), and the locals  *)
(* of SimplexBarrier.inverse_gradient while its loop runs (pc, iter,       *)
(* c_lower, c_upper).  orig remembers the tensor a round trip started from.*)
(***************************************************************************)
VARIABLES bar, x, call, out, pc, iter, c_lower, c_upper, orig

vars == <<bar, x, call, out, pc, iter, c_lower, c_upper, orig>>

locals == <<pc, iter, c_lower, c_upper>>

NoOut == [status |-> "ok", val |-> <<>>, form |-> "none", trace |-> <<>>]

Result(r) == [status |-> r.status, val |-> r.val, form |-> "none", trace |-> <<>>]

Init ==
  /\ bar = NoBarrier
  /\ x \in Batches
  /\ call = [op |-> "none"]
  /\ out = NoOut
  /\ pc = "idle"
  /\ iter = 0
  /\ c_lower = <<>>
  /\ c_upper = <<>>
  /\ orig = <<>>

\* a constructor returned: the new object is the one in hand from now on.
\* There is none yet, or the new one is a composition of the one just built.
Constructed(c, b) ==
  /\ pc = "idle"
  /\ orig = <<>>
  /\ bar.kind = "None" \/ (c.op = "ComposeBarrier" /\ call.op = "ComposeBarrier")
  /\ bar' = b
  /\ call' = c
  /\ out' = NoOut
  /\ UNCHANGED <<x, locals, orig>>

NewBox ==
  \E k \in DOMAIN BoxBoundsList :
    Constructed([arg |-> k, op |-> "BoxBarrier"], BoxBarrier(BoxBoundsList[k]))

NewEllipsoid ==
  \E k \in DOMAIN EllipsoidList :
    Constructed([arg |-> k, op |-> "EllipsoidBarrier"], EllipsoidBarrier(EllipsoidList[k]))

NewSimplex ==
  Constructed([arg |-> 2, op |-> "SimplexBarrier"], SimplexBarrier(2))

NewPolytope ==
  \E rank \in 1..2, w \in DOMAIN WeightsList :
    \E k \in IF rank = 1 THEN DOMAIN DiagPolytopes ELSE DOMAIN FullPolytopes :
      LET polytope == IF rank = 1 THEN DiagPolytopes[k] ELSE FullPolytopes[k]
          r == Polytope_init(polytope, WeightsList[w].has, WeightsList[w].w)
          c == [polytope |-> polytope, hasWeights |-> WeightsList[w].has,
                weights |-> WeightsList[w].w, op |-> "PolytopeBarrier"]
      IN  IF r.status = "ok"
          THEN Constructed(c, r.val)
          ELSE /\ pc = "idle"
               /\ bar.kind = "None"
               /\ call' = c
               /\ out' = Result(r)
               /\ UNCHANGED <<bar, x, locals, orig>>

NewCompose ==
  \E n \in 0..MaxLen :
    \E choice \in [1..n -> 1..Len(Pool(bar))] :
      LET barriers == [k \in 1..n |-> Pool(bar)[choice[k]]]
      IN  /\ bar.kind = "Compose" => \E k \in 1..n : choice[k] > Len(LeafPool)
          /\ Constructed([barriers |-> barriers, op |-> "ComposeBarrier"],
                         ComposeBarrier(barriers))

Constructors ==
  {"BoxBarrier", "EllipsoidBarrier", "SimplexBarrier", "PolytopeBarrier", "ComposeBarrier"}

\* the object in hand awaits a call: it is new, or the result of its last
\* call has just been made the argument of the next
Ready ==
  /\ pc = "idle"
  /\ bar.kind # "None"
  /\ call.op \in Constructors \cup {"feed"}

\* the map whose result the argument x is, "new" for an original argument
After == IF call.op = "feed" THEN call.after ELSE "new"

\* a method of the object in hand was called on x and returned or raised
Called(op, r) ==
  /\ Ready
  /\ call' = [op |-> op, after |-> After]
  /\ out' = r
  /\ bar' = SelfAfter(bar, op, x)
  /\ x' = InputAfter(bar, op, x)
  /\ UNCHANGED <<locals, orig>>

\* once a round trip has begun (orig is set), only the two maps are called
CallFeasibility ==
  /\ orig = <<>>
  /\ Called("feasibility", Result(Ok(Feasibility(bar, x))))

CallValue ==
  /\ orig = <<>>
  /\ Called("value", Result(Ok(Value(bar, x))))

CallGradient == Called("gradient", Result(Ok(Gradient(bar, x))))

CallHessian ==
  /\ orig = <<>>
  /\ Called("hessian", Hessian(bar, x))

CallBoundaryToInteriorHalf ==
  /\ orig = <<>>
  /\ Called("boundary_to_interior_half", Result(BoundaryToInteriorHalf(bar, x)))

CallInverseGradient ==
  /\ bar.kind # "Simplex"
  /\ Called("inverse_gradient", Result(InverseGradient(bar, x)))

\* SimplexBarrier.inverse_gradient up to the loop
SimplexInverseGradientEnter ==
  /\ Ready
  /\ bar.kind = "Simplex"
  /\ pc' = "loop"
  /\ iter' = 0
  /\ c_lower' = Simplex_c_lower_init(x)
  /\ c_upper' = Simplex_c_upper_init(x)
  /\ call' = [op |-> "inverse_gradient", after |-> After]
  /\ out' = [NoOut EXCEPT !.status = "running"]
  /\ bar' = SelfAfter(bar, "inverse_gradient", x)
  /\ x' = InputAfter(bar, "inverse_gradient", x)
  /\ UNCHANGED orig

\* a loop that stops as soon as every bracket is narrower than 2^-20
Simplex_range_until_converged ==
  IF /\ pc = "loop"
     /\ \A i \in DOMAIN c_upper :
          RLe(RSub(c_upper[i], c_lower[i]), RQ(1, 2^20))
  THEN iter
  ELSE NumIters

\* the number of iterations range(35) yields
Simplex_range == NumIters

\* one pass through the body of the loop
SimplexInverseGradientIterate ==
  /\ pc = "loop"
  /\ iter < Simplex_range
  /\ LET b == Simplex_bisect(c_lower, c_upper, x)
     IN  /\ c_lower' = b.c_lower
         /\ c_upper' = b.c_upper
  /\ iter' = iter + 1
  /\ bar' = SelfAfter(bar, "inverse_gradient", x)
  /\ x' = InputAfter(bar, "inverse_gradient", x)
  /\ UNCHANGED <<call, out, pc, orig>>

\* the loop is exhausted: the return statement
SimplexInverseGradientReturn ==
  /\ pc = "loop"
  /\ ~(iter < Simplex_range)
  /\ pc' = "idle"
  /\ out' = Result(Ok(Simplex_recover(c_upper, x)))
  /\ UNCHANGED <<bar, x, call, iter, c_lower, c_upper, orig>>

\* the round trips of the classes that have both maps: the tensor a
\* gradient or an inverse_gradient returned becomes the argument of the
\* next call
Feed ==
  /\ pc = "idle"
  /\ orig = <<>>
  /\ bar.kind \in {"Box", "Ellipsoid", "Simplex"}
  /\ call.op \in {"gradient", "inverse_gradient"}
  /\ out.status = "ok"
  /\ orig' = x
  /\ x' = out.val
  /\ call' = [op |-> "feed", after |-> call.op]
  /\ UNCHANGED <<bar, out, locals>>

Next ==
  \/ NewBox
  \/ NewEllipsoid
  \/ NewSimplex
  \/ NewPolytope
  \/ NewCompose
  \/ CallFeasibility
  \/ CallValue
  \/ CallGradient
  \/ CallHessian
  \/ CallBoundaryToInteriorHalf
  \/ CallInverseGradient
  \/ SimplexInverseGradientEnter
  \/ SimplexInverseGradientIterate
  \/ SimplexInverseGradientReturn
  \/ Feed

Spec == Init /\ [][Next]_vars
(***************************************************************************)
(* Properties                                                              *)
(***************************************************************************)
\* the last call was op, on a barrier of class kind, and it has ended
Ended(op, kind) ==
  /\ pc = "idle"
  /\ call.op = op
  /\ bar.kind = kind

VecEq(u, v) ==
  /\ Len(u) = Len(v)
  /\ \A j \in DOMAIN u : REq(u[j], v[j])

MatEq(A, B) ==
  /\ Len(A) = Len(B)
  /\ \A j \in DOMAIN A : VecEq(A[j], B[j])

\* the Hessian h of one constituent for one batch element, as a matrix
AsMatrix(h, i) ==
  IF h.form = "vector" THEN DiagMatrix(h.val[i]) ELSE h.val[i]

\* the sum over the constituents b[1..k] of their Hessians at batch element
\* i, every one as a matrix
RECURSIVE SumOfHessians(_, _, _, _)
SumOfHessians(b, X, i, k) ==
  IF k = 0 THEN DiagMatrix(zeros_like(X)[i])
  ELSE LET rest == SumOfHessians(b, X, i, k - 1)
           h == AsMatrix(Hessian(b[k], X), i)
       IN  [j \in DOMAIN rest |-> [m \in DOMAIN rest |-> RAdd(rest[j][m], h[j][m])]]

\* out is the sum of the constituents' Hessians, in the form the flag tells
IsSumOfHessians ==
  \A i \in DOMAIN x :
    MatEq(AsMatrix(out, i), SumOfHessians(bar.barriers, x, i, Len(bar.barriers)))

\* C1 as stated: ComposeBarrier.hessian returns normally for every list of
\* constituents, and returns the sum of their Hessians, the diagonal ones
\* embedded when a constituent is not diagonal
C1_ReturnsTheSum ==
  Ended("hessian", "Compose") =>
    /\ out.status = "ok"
    /\ out.form = (IF bar.diag_hess THEN "vector" ELSE "matrix")
    /\ IsSumOfHessians

\* the steps of the last call of ComposeBarrier.hessian, in order
Steps == out.trace

NumEmbeds == Cardinality({k \in DOMAIN Steps : Steps[k].ev = "embed"})

\* every addition of a diagonal constituent is made in vector form and
\* precedes every addition of a non-diagonal one
DiagonalFirst ==
  \A j \in DOMAIN Steps :
    (Steps[j].ev = "add" /\ Steps[j].diag) =>
      /\ Steps[j].form = "vector"
      /\ \A k \in DOMAIN Steps :
           (Steps[k].ev = "add" /\ ~Steps[k].diag) => j < k

HasNonDiagonal == \E k \in DOMAIN bar.barriers : ~bar.barriers[k].diag_hess

\* C2 as stated: in one call of ComposeBarrier.hessian the diagonal
\* constituents are accumulated as vectors before any non-diagonal one, and
\* the embedding is done exactly once when a constituent is non-diagonal and
\* never (a vector is returned) when all are diagonal, for every list of
\* at least one constituent
C2_EmbedExactlyOnce ==
  (Ended("hessian", "Compose") /\ bar.barriers # <<>>) =>
    /\ DiagonalFirst
    /\ NumEmbeds = (IF HasNonDiagonal THEN 1 ELSE 0)
    /\ ~HasNonDiagonal => out.form = "vector"

IsScalar(r) == r.sg \in {-1, 0, 1}

IsVector(v, d) == Len(v) = d /\ \A j \in 1..d : IsScalar(v[j])

IsMatrix(m, d) == Len(m) = d /\ \A j \in 1..d : IsVector(m[j], d)

\* the flag of b, and of every barrier nested in b, is the one its class gives it
RECURSIVE FlagByClass(_)
FlagByClass(b) ==
  CASE b.kind = "Box" -> b.diag_hess
    [] b.kind = "Polytope" -> b.diag_hess = (b.polytope.Arank = 1)
    [] b.kind \in {"Ellipsoid", "Simplex"} -> ~b.diag_hess
    [] b.kind = "Compose" ->
         /\ b.diag_hess = (\A k \in DOMAIN b.barriers : b.barriers[k].diag_hess)
         /\ \A k \in DOMAIN b.barriers : FlagByClass(b.barriers[k])

\* what hessian returned has the form the flag tells, for every batch element
FormByFlag ==
  \A i \in DOMAIN x :
    IF bar.diag_hess
    THEN out.form = "vector" /\ IsVector(out.val[i], Len(x[i]))
    ELSE out.form = "matrix" /\ IsMatrix(out.val[i], Len(x[i]))

HessianReturned ==
  /\ pc = "idle"
  /\ call.op = "hessian"
  /\ out.status = "ok"

\* no step but a construction changes the barrier, and a composition built
\* around a barrier holds that barrier as it was
FlagFixed ==
  /\ (bar.kind # "None" /\ call'.op \notin Constructors) => bar' = bar
  /\ (bar.kind # "None" /\ bar' # bar) =>
       \E k \in DOMAIN bar'.barriers : bar'.barriers[k] = bar

\* C3: the diag_hess flag of every barrier is the one its class and its
\* construction arguments give (Box and 1-D-A Polytope true; Ellipsoid,
\* Simplex and 2-D-A Polytope false; Compose, nested too, true iff all of its
\* constituents are), it never changes after construction, and hessian
\* returns a length-d vector when it is true and a d-by-d matrix when false
C3_FlagAgreesWithForm ==
  /\ [](bar.kind # "None" => FlagByClass(bar))
  /\ [](HessianReturned => FormByFlag)
  /\ [][FlagFixed]_vars

\* a composition that holds a diagonal composition and a non-diagonal
\* barrier has returned a matrix
C3_Witness ==
  /\ HessianReturned
  /\ bar.kind = "Compose"
  /\ ~bar.diag_hess
  /\ \E k \in DOMAIN bar.barriers :
       bar.barriers[k].kind = "Compose" /\ bar.barriers[k].diag_hess

\* constituent k of the composition in hand reports batch element i feasible
FeasibleIn(k, i) == Feasibility(bar.barriers[k], <<x[i]>>)[1]

\* C4: ComposeBarrier.feasibility reports a batch element feasible iff every
\* constituent reports it feasible
C4_FeasibilityIsAnd ==
  Ended("feasibility", "Compose") =>
    \A i \in DOMAIN x :
      out.val[i] = (\A k \in DOMAIN bar.barriers : FeasibleIn(k, i))

\* a point inside one constituent's domain and outside another's was
\* reported infeasible
C4_Witness ==
  /\ Ended("feasibility", "Compose")
  /\ \E i \in DOMAIN x :
       /\ ~out.val[i]
       /\ \E j, k \in DOMAIN bar.barriers : FeasibleIn(j, i) /\ ~FeasibleIn(k, i)

\* 0 <= r, by the sign of r
NonNeg(r) == IsFinite(r) /\ r.sg >= 0

\* the slack of every constraint of the domain of b at the point p: a_i - |p_i|
\* for the box; p_i and 1 - sum(p) for the simplex; b_i - (Ap)_i for the
\* polytope, A taken as a matrix
Slacks(b, p) ==
  CASE b.kind = "Box" -> [j \in DOMAIN p |-> RSub(b.bounds[j], RAbs(p[j]))]
    [] b.kind = "Simplex" -> p \o <<RSub(ROne, VSum(p))>>
    [] b.kind = "Polytope" ->
         LET A == IF b.polytope.Arank = 1 THEN DiagMatrix(b.polytope.A) ELSE b.polytope.A
         IN  [k \in DOMAIN A |->
                RSub(b.polytope.b[k], VSum([j \in DOMAIN p |-> RMul(A[k][j], p[j])]))]

InClosedDomain(b, p) == \A k \in DOMAIN Slacks(b, p) : NonNeg(Slacks(b, p)[k])

FeasibilityEnded ==
  /\ pc = "idle"
  /\ call.op = "feasibility"
  /\ bar.kind \in {"Box", "Simplex", "Polytope"}

\* C5: feasibility of BoxBarrier, SimplexBarrier and PolytopeBarrier is true
\* iff the point satisfies every constraint of the domain, equality allowed
C5_ClosedDomain ==
  FeasibilityEnded =>
    \A i \in DOMAIN x : out.val[i] = InClosedDomain(bar, x[i])

\* a point with equality in every constraint of a box was reported feasible
C5_Witness ==
  /\ FeasibilityEnded
  /\ bar.kind = "Box"
  /\ \E i \in DOMAIN x :
       /\ out.val[i]
       /\ \A k \in DOMAIN x[i] : Slacks(bar, x[i])[k].sg = 0

\* the call that has just been made is one its class does not support
UnsupportedCall(b, c) ==
  \/ b.kind = "Polytope" /\ c.op = "inverse_gradient"
  \/ b.kind = "Compose" /\ c.op \in {"inverse_gradient", "boundary_to_interior_half"}

\* C6: PolytopeBarrier.inverse_gradient, ComposeBarrier.inverse_gradient and
\* ComposeBarrier.boundary_to_interior_half raise NotImplementedError on
\* every input, return no value, and leave the barrier and the input as
\* they were
C6_Unsupported ==
  [][UnsupportedCall(bar', call') =>
       /\ out'.status = "NotImplementedError"
       /\ out'.val = <<>>
       /\ bar' = bar
       /\ x' = x]_vars

\* inverse_gradient of a composition whose first constituent supports it
\* has raised NotImplementedError
C6_Witness ==
  /\ UnsupportedCall(bar, call)
  /\ bar.kind = "Compose"
  /\ call.op = "inverse_gradient"
  /\ bar.barriers # <<>>
  /\ bar.barriers[1].kind = "Box"
  /\ out.status = "NotImplementedError"

PolytopeConstructed == call.op = "PolytopeBarrier"

\* weights were passed and their shape is not the shape of b
WeightsMismatch ==
  call.hasWeights /\ Len(call.weights) # Len(call.polytope.b)

\* C7: PolytopeBarrier(polytope, weights) raises ValueError and yields no
\* barrier when weights are passed whose shape is not b's; without weights,
\* or with weights of b's length, it yields the barrier, for a matrix A and
\* for a diagonal-vector A
C7_WeightsValidated ==
  PolytopeConstructed =>
    IF WeightsMismatch
    THEN out.status = "ValueError" /\ bar.kind = "None"
    ELSE /\ out.status = "ok"
         /\ bar.kind = "Polytope"
         /\ bar.polytope = call.polytope
         /\ bar.hasWeights = call.hasWeights
         /\ bar.weights = call.weights

\* a matrix polytope of three constraints in the plane was refused weights
\* of length two
C7_Witness ==
  /\ PolytopeConstructed
  /\ WeightsMismatch
  /\ call.polytope.Arank = 2
  /\ Len(call.weights) = Len(call.polytope.A[1])
  /\ out.status = "ValueError"
  /\ bar.kind = "None"

RoundTripRtolDen == 10000

RoundTripAtolDen == 1000000

\* torch.allclose(a, b, rtol=1e-04, atol=1e-06) on one entry
CloseTo(a, b) ==
  IF IsNaN(a) \/ IsNaN(b) THEN FALSE
  ELSE IF IsInf(a) \/ IsInf(b) THEN IsInf(a) /\ IsInf(b) /\ a.sg = b.sg
  ELSE RLe(RAbs(RSub(a, b)),
           RAdd(RQ(1, RoundTripAtolDen), RMul(RQ(1, RoundTripRtolDen), RAbs(b))))

AllClose(U, V) ==
  \A i \in DOMAIN V : \A j \in DOMAIN V[i] : CloseTo(U[i][j], V[i][j])

\* p lies strictly inside the domain of b
StrictlyInterior(b, p) ==
  IF b.kind = "Ellipsoid" THEN RLt(Ellipsoid_inner_product(b, p), ROne)
  ELSE \A k \in DOMAIN Slacks(b, p) : Slacks(b, p)[k].sg = 1

\* second returned, called on what first had returned for orig
RoundTrip(first, second) ==
  /\ pc = "idle"
  /\ orig # <<>>
  /\ call.op = second
  /\ call.after = first
  /\ bar.kind \in {"Box", "Ellipsoid", "Simplex"}

\* C8 as stated: for BoxBarrier, EllipsoidBarrier and SimplexBarrier,
\* inverse_gradient(gradient(x)) is x within rtol 1e-4 and atol 1e-6 for
\* every strictly interior x, and gradient(inverse_gradient(y)) is y within
\* the same tolerance for every y
C8_MutuallyInverse ==
  /\ (RoundTrip("gradient", "inverse_gradient")
        /\ \A i \in DOMAIN orig : StrictlyInterior(bar, orig[i]))
       => (out.status = "ok" /\ AllClose(out.val, orig))
  /\ RoundTrip("inverse_gradient", "gradient")
       => (out.status = "ok" /\ AllClose(out.val, orig))

\* the barrier of the same polytope and weights, A given as the matrix diag(A)
MatrixTwin(b) == Polytope_init(FullTwin(b.polytope), b.hasWeights, b.weights).val

\* two values, each the sum of its terms c * log(arg), term by term equal
SameValue(u, v) ==
  /\ Len(u) = Len(v)
  /\ \A k \in DOMAIN u : REq(u[k].c, v[k].c) /\ REq(u[k].arg, v[k].arg)

DiagonalPolytopeEnded(op) ==
  /\ pc = "idle"
  /\ bar.kind = "Polytope"
  /\ bar.polytope.Arank = 1
  /\ call.op = op
  /\ out.status = "ok"

\* C9: a polytope given by the vector A and the polytope given by the matrix
\* diag(A), with the same b, agree at every point in feasibility and in
\* value, and the Hessian of the first, embedded as a diagonal matrix, is the
\* Hessian of the second
C9_DiagonalEqualsMatrix ==
  /\ DiagonalPolytopeEnded("feasibility") =>
       out.val = Polytope_feasibility(MatrixTwin(bar), x)
  /\ DiagonalPolytopeEnded("value") =>
       \A i \in DOMAIN x : SameValue(out.val[i], Polytope_value(MatrixTwin(bar), x)[i])
  /\ DiagonalPolytopeEnded("hessian") =>
       \A i \in DOMAIN x :
         MatEq(DiagMatrix(out.val[i]), Polytope_hessian(MatrixTwin(bar), x)[i])

\* the Hessian of a diagonal polytope with a negative entry of A was taken
\* at a batch that holds an infeasible point
C9_Witness ==
  /\ DiagonalPolytopeEnded("hessian")
  /\ bar.polytope.A[2].sg = -1
  /\ \E i \in DOMAIN x : ~InClosedDomain(bar, x[i])
  /\ \E i \in DOMAIN x : InClosedDomain(bar, x[i])

SimplexInverseGradientRunning == pc = "loop"

SimplexInverseGradientReturned == Ended("inverse_gradient", "Simplex")

\* C10: SimplexBarrier.inverse_gradient makes exactly 35 iterations whatever
\* y is: while it runs it has made at most 35 and has raised nothing, it
\* returns only after the 35th, and it returns a result, never an error
C10_ExactlyNumIters ==
  /\ SimplexInverseGradientRunning =>
       /\ iter \in 0..NumIters
       /\ out.status = "running"
       /\ Len(c_lower) = Len(x)
       /\ Len(c_upper) = Len(x)
  /\ SimplexInverseGradientReturned =>
       /\ iter = NumIters
       /\ out.status = "ok"
       /\ Len(out.val) = Len(x)

\* the call returned for a batch of two points whose brackets had both
\* become narrower than 2^-20 long before
C10_Witness ==
  /\ SimplexInverseGradientReturned
  /\ iter = NumIters
  /\ Len(x) = 2
  /\ \A i \in DOMAIN c_upper : RLe(RSub(c_upper[i], c_lower[i]), RQ(1, 2^20))

QueryOps ==
  {"feasibility", "value", "gradient", "hessian", "inverse_gradient",
   "boundary_to_interior_half"}

\* the barrier built anew from the parameters of b
RECURSIVE Fresh(_)
Fresh(b) ==
  CASE b.kind = "Box" -> BoxBarrier(b.bounds)
    [] b.kind = "Ellipsoid" -> EllipsoidBarrier(b.ellipsoid)
    [] b.kind = "Simplex" -> SimplexBarrier(b.dimension)
    [] b.kind = "Polytope" -> Polytope_init(b.polytope, b.hasWeights, b.weights).val
    [] b.kind = "Compose" -> ComposeBarrier([k \in DOMAIN b.barriers |-> Fresh(b.barriers[k])])

\* C11: a step of a query operation (a whole call, or a step of the loop of
\* SimplexBarrier.inverse_gradient) leaves the barrier, with all of its
\* parameters, and the caller's batch as they were, every in-place
\* statement it executes writes a tensor the call itself allocated, and the
\* barrier after the call is the barrier a fresh construction from the same
\* parameters gives
C11_NoMutation ==
  [][(bar.kind # "None" /\ call'.op \in QueryOps) =>
       /\ bar' = bar
       /\ x' = x
       /\ \A w \in Writes(bar, call'.op) : Storage(w) = "fresh"
       /\ Fresh(bar') = bar]_vars

\* the second call on one instance, after the round trip fed it the result
\* of the first, has ended on a batch of two points
C11_Witness ==
  /\ pc = "idle"
  /\ call.op \in QueryOps
  /\ call.after \in QueryOps
  /\ orig # <<>>
  /\ Len(x) = 2
  /\ out.status = "ok"

\* the matrix M = rot * diag(eigvals) * rot^T of the ellipsoid of b
EllipsoidMatrix(b) ==
  LET U == b.ellipsoid.rot
      L == b.ellipsoid.eigvals
  IN  [j \in DOMAIN U |->
         [k \in DOMAIN U |->
            VSum([m \in DOMAIN L |-> RMul(RMul(U[j][m], L[m]), U[k][m])])]]

\* x^T M x
QuadraticForm(b, p) ==
  LET M == EllipsoidMatrix(b)
  IN  VSum([j \in DOMAIN p |->
              VSum([k \in DOMAIN p |-> RMul(RMul(p[j], M[j][k]), p[k])])])

\* the value -log(arg) is exactly 0: it is one term, of coefficient -1 and
\* argument 1
ValueIsZero(v) == Len(v) = 1 /\ REq(v[1].c, RInt(-1)) /\ REq(v[1].arg, ROne)

\* the value -log(arg) is finite: the argument is a finite positive number
ValueIsFinite(v) ==
  \A k \in DOMAIN v : IsFinite(v[k].c) /\ IsFinite(v[k].arg) /\ v[k].arg.sg = 1

\* C12: EllipsoidBarrier.value is exactly 0, the value at the centre, at
\* every point with x^T M x >= 1, is -log(1 - x^T M x) with the quadratic
\* form as it is at every point with x^T M x < 1, and is finite everywhere
C12_ZeroOutside ==
  Ended("value", "Ellipsoid") =>
    \A i \in DOMAIN x :
      LET q == QuadraticForm(bar, x[i])
      IN  /\ ValueIsFinite(out.val[i])
          /\ RGe(q, ROne) =>
               /\ ValueIsZero(out.val[i])
               /\ SameValue(out.val[i], Ellipsoid_value(bar, zeros_like(x))[1])
          /\ RLt(q, ROne) =>
               SameValue(out.val[i], <<LogTerm(RInt(-1), RSub(ROne, q))>>)

\* the value was taken at a point on the boundary, x^T M x = 1, and at a
\* point with 0 < x^T M x < 1
C12_Witness ==
  /\ Ended("value", "Ellipsoid")
  /\ \E i \in DOMAIN x :
       REq(QuadraticForm(bar, x[i]), ROne) /\ ValueIsZero(out.val[i])
  /\ \E i \in DOMAIN x :
       RLt(QuadraticForm(bar, x[i]), ROne) /\ ~ValueIsZero(out.val[i])

\* min(1, 1 / max(y)) when max(y) > 0, and 1 otherwise
InitialUpper(y) ==
  LET m == VMax(y)
  IN  IF RGt(m, RZero)
      THEN (IF RLt(RInv(m), ROne) THEN RInv(m) ELSE ROne)
      ELSE ROne

Midpoint(i) == RMul(RQ(1, 2), RAdd(c_lower[i], c_upper[i]))

\* the brackets are in order inside the initial ones, and after iter
\* iterations their width is the initial width over 2^iter
BracketInvariant ==
  \A i \in DOMAIN x :
    /\ RLe(RZero, c_lower[i])
    /\ RLe(c_lower[i], c_upper[i])
    /\ RLe(c_upper[i], InitialUpper(x[i]))
    /\ REq(RMul(RSub(c_upper[i], c_lower[i]), RFin(1, BPow2(iter), BOne)),
           InitialUpper(x[i]))

\* one iteration: for each batch element exactly one bound moves, to the
\* midpoint: the upper one when f(midpoint) > 0, else the lower one (inwards,
\* unless the bracket is a single point)
BracketStep ==
  \A i \in DOMAIN x :
    IF RGt(Simplex_f(Midpoint(i), x[i]), RZero)
    THEN /\ REq(c_upper'[i], Midpoint(i))
         /\ c_lower'[i] = c_lower[i]
         /\ RLt(c_lower[i], c_upper[i]) => RLt(c_upper'[i], c_upper[i])
    ELSE /\ REq(c_lower'[i], Midpoint(i))
         /\ c_upper'[i] = c_upper[i]
         /\ RLt(c_lower[i], c_upper[i]) => RGt(c_lower'[i], c_lower[i])

\* C13: the bracket of SimplexBarrier.inverse_gradient starts at c_lower = 0
\* and c_upper = min(1, 1/max(y)) (1 when max(y) <= 0); each iteration moves
\* exactly one bound of each batch element to the midpoint, the upper one
\* when f(midpoint) > 0 and the lower one otherwise; so at every iteration
\* 0 <= c_lower <= c_upper <= the initial c_upper, no bound moves outward,
\* and the width is halved
C13_Bracket ==
  /\ [](pc = "loop" => BracketInvariant)
  /\ [][(pc = "idle" /\ pc' = "loop") =>
          \A i \in DOMAIN x :
            c_lower'[i] = RZero /\ REq(c_upper'[i], InitialUpper(x[i]))]_vars
  /\ [][(pc = "loop" /\ iter' = iter + 1) => BracketStep]_vars

\* after some iterations, in one batch, the upper bound of one element has
\* moved and the lower bound of another, and one bracket began at 1/max(y)
C13_Witness ==
  /\ pc = "loop"
  /\ iter > 2
  /\ \E i \in DOMAIN x : RLt(c_upper[i], InitialUpper(x[i]))
  /\ \E i \in DOMAIN x : RGt(c_lower[i], RZero) /\ REq(c_upper[i], InitialUpper(x[i]))
  /\ \E i \in DOMAIN x : RLt(InitialUpper(x[i]), ROne)

\* C14 as stated: SimplexBarrier.value is finite at every point, the points
\* with a coordinate x_i <= 0 or with sum(x) >= 1 included: the argument of
\* every logarithm, log(x_i) and log(1 - sum(x)), is at least 1e-8
C14_SimplexValueFinite ==
  Ended("value", "Simplex") =>
    \A i \in DOMAIN x :
      /\ ValueIsFinite(out.val[i])
      /\ \A k \in DOMAIN out.val[i] : RGe(out.val[i][k].arg, RFloor)

\* some coordinate of p lies beyond a_i * 0.5^(1/d)
BeyondInnerHalf(b, p) ==
  \E j \in DOMAIN p : RGt(RAbs(p[j]), RMul(b.bounds[j], HalfPow(1, Len(p))))

\* C15 as stated: BoxBarrier.boundary_to_interior_half is true exactly at
\* the points of the box with a coordinate |x_i| > a_i * 0.5^(1/d); it is
\* false in the inner box and at the points that are not in the box
C15_ShellOfTheBox ==
  Ended("boundary_to_interior_half", "Box") =>
    \A i \in DOMAIN x :
      out.val[i] = (InClosedDomain(bar, x[i]) /\ BeyondInnerHalf(bar, x[i]))

\* 1 - c * y_j > 0 for every coordinate j of y
DenominatorsPositive(c, y) ==
  \A j \in DOMAIN y : RGt(RSub(ROne, RMul(c, y[j])), RZero)

\* C16 as stated: SimplexBarrier.inverse_gradient never divides by zero:
\* at every midpoint it tests, and at the final upper bound it recovers x
\* from, 1 - c * y_i > 0 for every coordinate, and the x it returns is
\* finite and positive in every coordinate
C16_NoDivisionByZero ==
  /\ (pc = "loop" /\ iter < NumIters) =>
       \A i \in DOMAIN x : DenominatorsPositive(Midpoint(i), x[i])
  /\ (pc = "loop" /\ iter = NumIters) =>
       \A i \in DOMAIN x : DenominatorsPositive(c_upper[i], x[i])
  /\ SimplexInverseGradientReturned =>
       \A i \in DOMAIN x : \A j \in DOMAIN x[i] :
         IsFinite(out.val[i][j]) /\ out.val[i][j].sg = 1
====
